---- MODULE Spec2Model ----
(***************************************************************************)
(* A model of config/Preset.py: presets that inherit from a base preset,   *)
(* store a delta against it, resolve typed values through the chain,       *)
(* compose and diff nested configuration trees, name themselves, and hand  *)
(* out prefixed clones.                                                    *)
(*                                                                         *)
(* Representation.                                                         *)
(*  - A Python str is a sequence of pieces, each piece a TLA+ string: a    *)
(*    key is one piece, "/" is a piece, so that concatenation, split('/'), *)
(*    endswith and slicing are computed on the sequence.                   *)
(*  - A nested dict is a function from paths (non-empty sequences of keys) *)
(*    to node values; a node is a leaf value or MAP (a nested dict).  The  *)
(*    domain is prefix-closed and only MAP nodes have children.            *)
(*  - A leaf value is the text of a JSON/Python literal: "0", "1",         *)
(*    "False", "[]", ...                                                   *)
(*  - Objects live in two heaps: presets (Preset instances) and data (the  *)
(*    raw records; the ConfigurationBlock of a preset wraps the 'config'   *)
(*    dict of the record with the same index).  0 is None.                 *)
(***************************************************************************)
EXTENDS Integers, Sequences, FiniteSets, TLC

VARIABLES
    presets,   \* heap of Preset objects
    data,      \* heap of raw records (and of the blocks wrapping their config)
    ret,       \* the last call: its operation, arguments and result
    session,   \* per preset: the lines its logger got, and the names
               \* resolved, since the logger was set
    views      \* per preset: the preset and segment get_with_prefix made it from

vars == <<presets, data, ret, session, views>>

(***************************************************************************)
(* Bounds of the model.                                                    *)
(***************************************************************************)
\* longest key path of a generated configuration tree
MaxDepth == 3
\* most nodes (leaves and nested dicts) of a generated configuration tree
MaxNodes == 3
\* most nodes in all the candidate configs of a resolution chain
MaxChainNodes == 2
\* most Preset objects on the heap of the object-lifecycle specification
MaxPresets == 3
\* most nodes of the config of the preset that logs
MaxLogNodes == 1
\* most prefixed views taken in one run of the scoping specification
MaxViews == 2
\* largest try_number assigned
MaxTry == 1

Keys == {"a", "b"}
\* leaf values: int 0, int 1, bool False, the empty list
Vals == {"0", "1", "False", "[]"}
MAP == "{}"
NoneStr == <<"None">>

(***************************************************************************)
(* Nested dicts.                                                           *)
(***************************************************************************)
EmptyDict == [p \in {} |-> MAP]

Restrict(t, S) == [p \in S |-> t[p]]

IsPrefix(q, p) == Len(q) <= Len(p) /\ SubSeq(p, 1, Len(q)) = q

Front(s) == SubSeq(s, 1, Len(s) - 1)

\* the keys of the dict at path q (q = <<>> is the root dict)
Children(t, q) == {p \in DOMAIN t : Len(p) = Len(q) + 1 /\ IsPrefix(q, p)}

\* del d[k] for the node at path q: the node and everything below it
DelNode(t, q) == Restrict(t, {p \in DOMAIN t : ~IsPrefix(q, p)})

\* the dict stored under top-level key k (k must hold a nested dict)
Sub(t, k) ==
    [p \in {Tail(q) : q \in {r \in DOMAIN t : Len(r) > 1 /\ r[1] = k}}
        |-> t[<<k>> \o p]]

\* d with d[k] = the dict s
SetSub(t, k, s) ==
    [p \in {q \in DOMAIN t : q[1] # k} \cup {<<k>>} \cup {<<k>> \o q : q \in DOMAIN s}
        |-> IF p[1] # k THEN t[p]
            ELSE IF Len(p) = 1 THEN MAP ELSE s[Tail(p)]]

\* d with d[k] = the leaf v
SetLeaf(t, k, v) ==
    [p \in {q \in DOMAIN t : q[1] # k} \cup {<<k>>}
        |-> IF p[1] # k THEN t[p] ELSE v]

TopKeys(t) == {p[1] : p \in {q \in DOMAIN t : Len(q) = 1}}

LeafPaths(t) == {p \in DOMAIN t : t[p] # MAP}

IsTree(t) ==
    \A p \in DOMAIN t :
        /\ Len(p) >= 1
        /\ Len(p) > 1 => (Front(p) \in DOMAIN t /\ t[Front(p)] = MAP)

\* every way to add one node to t
Extend(t, depth) ==
    {[p \in DOMAIN t \cup {q} |-> IF p = q THEN v ELSE t[p]] :
        q \in {r \in UNION {[1..n -> Keys] : n \in 1..depth} :
                 /\ r \notin DOMAIN t
                 /\ Len(r) > 1 => (Front(r) \in DOMAIN t /\ t[Front(r)] = MAP)},
        v \in Vals \cup {MAP}}

RECURSIVE TreesUpTo(_, _)
\* all nested dicts of at most n nodes and key paths of at most depth keys
TreesUpTo(n, depth) ==
    IF n <= 0 THEN {EmptyDict}
    ELSE LET S == TreesUpTo(n - 1, depth)
         IN  S \cup UNION {Extend(t, depth) : t \in S}

Size(t) == Cardinality(DOMAIN t)

(***************************************************************************)
(* Python str operations on sequences of pieces.                           *)
(***************************************************************************)
RECURSIVE Join(_)
\* '/'.join(path)
Join(p) == IF Len(p) <= 1 THEN p ELSE <<p[1], "/">> \o Join(Tail(p))

RECURSIVE SplitFrom(_, _, _)
SplitFrom(s, i, cur) ==
    IF i > Len(s) THEN <<cur>>
    ELSE IF s[i] = "/" THEN <<cur>> \o SplitFrom(s, i + 1, "")
    ELSE SplitFrom(s, i + 1, cur \o s[i])

\* key.split('/')
Split(s) == SplitFrom(s, 1, "")

\* str(value) of a leaf value, as one piece: the text of the literal, and
\* the characters of a string without its quotes
Str(v) == IF v = "''" THEN "" ELSE v

\* Python's == on leaf values: bool is an int (False == 0, True == 1)
PyNum(v) == IF v = "False" THEN "0" ELSE IF v = "True" THEN "1" ELSE v
PyEq(v, w) == PyNum(v) = PyNum(w)

\* a set as a sequence, in one fixed order
RECURSIVE SeqOf(_)
SeqOf(S) ==
    IF S = {} THEN <<>>
    ELSE LET x == CHOOSE y \in S : TRUE IN <<x>> \o SeqOf(S \ {x})

\* every ordering of a set
RECURSIVE Orders(_)
Orders(S) ==
    IF S = {} THEN {<<>>}
    ELSE UNION {{<<x>> \o o : o \in Orders(S \ {x})} : x \in S}

(***************************************************************************)
(* ConfigurationBlock: the typed store (not in src/; from its interface).  *)
(***************************************************************************)
\* flatten(): '/'-joined path -> leaf value
Flatten(t) ==
    [k \in {Join(p) : p \in LeafPaths(t)} |-> t[Split(k)]]

Types == {"int", "string", "float", "bool", "list"}

Value(v) == [kind |-> "value", value |-> v]
NotFoundError == [kind |-> "NotFoundError", value |-> ""]
TypeError == [kind |-> "TypeError", value |-> ""]

\* the conversion of a stored leaf value to the requested type
Convert(v, value_type) ==
    CASE value_type = "int" ->
            IF v \in {"0", "False"} THEN Value("0")
            ELSE IF v \in {"1", "True"} THEN Value("1")
            ELSE TypeError
      [] value_type = "float" ->
            IF v \in {"0", "False"} THEN Value("0.0")
            ELSE IF v \in {"1", "True"} THEN Value("1.0")
            ELSE TypeError
      [] value_type = "bool" ->
            IF v \in {"0", "False", "[]", "''"} THEN Value("False")
            ELSE Value("True")
      [] value_type = "string" ->
            IF v = "''" THEN Value("''") ELSE Value("'" \o v \o "'")
      [] OTHER ->
            IF v = "[]" THEN Value("[]") ELSE TypeError

\* get_<value_type>(name) on the block wrapping dict t
BlockGet(t, name, value_type) ==
    LET flattened == Flatten(t)
    IN  IF name \in DOMAIN flattened
        THEN Convert(flattened[name], value_type)
        ELSE NotFoundError

(***************************************************************************)
(* Preset: construction.  A heap is [presets |-> Seq, data |-> Seq].       *)
(***************************************************************************)
NoLogger == "None"

\* __init__ with data=None
BlankPreset(base_preset, file) ==
    [prefix |-> <<>>, base_preset |-> base_preset, file |-> file,
     try_number |-> 0, printed |-> {}, logger |-> NoLogger,
     data |-> 0, name |-> <<>>, uuid |-> "", creation_time |-> 0,
     config |-> 0, abstract |-> FALSE]

\* self.config of preset i as a dict
ConfigOf(h, i) == h.data[h.presets[i].config].config

\* DiffKey without the walk back up that deletes the emptied dicts
DiffKey_NoPrune(config, old_flattened_data, new_flattened_data, key) ==
    IF key \in DOMAIN old_flattened_data
       /\ PyEq(old_flattened_data[key], new_flattened_data[key])
    THEN DelNode(config, Split(key))
    ELSE config

\* one pass of the loop of diff_config for one flattened key
DiffKey(config, old_flattened_data, new_flattened_data, key) ==
    IF key \in DOMAIN old_flattened_data
       /\ PyEq(old_flattened_data[key], new_flattened_data[key])
    THEN LET keys == Split(key)
             RECURSIVE PruneEmpty(_, _)
             PruneEmpty(c, ks) ==
                 IF Len(ks) = 0 THEN c
                 ELSE IF Children(c, ks) = {}
                      THEN PruneEmpty(DelNode(c, ks), Front(ks))
                      ELSE c
         IN  PruneEmpty(DelNode(config, keys), Front(keys))
    ELSE config

RECURSIVE DiffLoop(_, _, _, _)
DiffLoop(config, old_flattened_data, new_flattened_data, order) ==
    IF order = <<>> THEN config
    ELSE DiffLoop(DiffKey(config, old_flattened_data, new_flattened_data, Head(order)),
                  old_flattened_data, new_flattened_data, Tail(order))

\* self.diff_config(config), where order is the iteration order of the
\* flattened candidate
diff_config(h, self, config, order) ==
    DiffLoop(config, Flatten(ConfigOf(h, self)), Flatten(config), order)

\* the keys of order that the dict t still flattens to
KeptOrder(order, t) == SelectSeq(order, LAMBDA k : k \in DOMAIN Flatten(t))

RECURSIVE NameParts(_, _)
NameParts(flattened_data, order) ==
    IF order = <<>> THEN <<>>
    ELSE Head(order) \o <<": ", Str(flattened_data[Head(order)]), " - ">>
         \o NameParts(flattened_data, Tail(order))

\* _generate_name() of a preset with the given base and own config
_generate_name(h, base_preset, config, order) ==
    LET pre  == IF base_preset # 0 /\ h.presets[base_preset].base_preset # 0
                THEN h.presets[base_preset].name \o <<": ">>
                ELSE <<>>
        name == pre \o NameParts(Flatten(config), KeptOrder(order, config))
    IN  IF Len(name) > 0 /\ name[Len(name)] = " - " THEN Front(name)
        ELSE IF name = <<>> THEN <<"empty">>
        ELSE name

\* Preset(data=new_data, base_preset, file): the heap with the new preset
\* and its record appended
Construct(h, new_data, base_preset, file, order) ==
    LET n      == Len(h.data) + 1
        config == IF base_preset # 0
                  THEN diff_config(h, base_preset, new_data.config, order)
                  ELSE new_data.config
        uuid   == IF "uuid" \in new_data.has THEN new_data.uuid
                  ELSE "uuid4-" \o ToString(n)
        ctime  == IF "creation_time" \in new_data.has THEN new_data.creation_time
                  ELSE n
        name   == IF "name" \in new_data.has THEN new_data.name
                  ELSE _generate_name(h, base_preset, config, order)
        rec    == [config |-> config, name |-> name, uuid |-> uuid,
                   creation_time |-> ctime, abstract |-> new_data.abstract,
                   has |-> new_data.has \cup {"uuid", "creation_time", "name"}]
        self   == [BlankPreset(base_preset, file) EXCEPT
                     !.data = n, !.config = n, !.name = name, !.uuid = uuid,
                     !.creation_time = ctime,
                     !.abstract = "abstract" \in new_data.has /\ new_data.abstract]
    IN  [presets |-> Append(h.presets, self), data |-> Append(h.data, rec)]

\* a raw record that holds only a config
RawConfig(config) ==
    [config |-> config, has |-> {}, name |-> <<>>, uuid |-> "",
     creation_time |-> 0, abstract |-> FALSE]

EmptyHeap == [presets |-> <<>>, data |-> <<>>]

(***************************************************************************)
(* Preset: resolution.                                                     *)
(***************************************************************************)
RECURSIVE _get_value_BaseFirst(_, _, _, _)
\* _get_value asking the base preset first and its own config last
_get_value_BaseFirst(h, self, name, value_type) ==
    LET own == BlockGet(ConfigOf(h, self), name, value_type)
    IN  IF h.presets[self].base_preset = 0 THEN own
        ELSE LET inherited == _get_value_BaseFirst(h, h.presets[self].base_preset,
                                                   name, value_type)
             IN  IF inherited.kind = "NotFoundError" THEN own ELSE inherited

RECURSIVE _get_value(_, _, _, _)
_get_value(h, self, name, value_type) ==
    LET value == BlockGet(ConfigOf(h, self), name, value_type)
    IN  IF value.kind = "NotFoundError"
        THEN IF h.presets[self].base_preset = 0 THEN value
             ELSE _get_value(h, h.presets[self].base_preset, name, value_type)
        ELSE value

\* Resolve taking the fallback also when the primary's value is falsy
Resolve_FalsyFallback(h, self, name, fallback, value_type) ==
    LET full  == h.presets[self].prefix \o name
        value == _get_value(h, self, full, value_type)
    IN  IF /\ fallback # NoneStr
           /\ \/ value.kind = "NotFoundError"
              \/ value.kind = "value" /\ value.value \in {"0", "0.0", "False", "[]", "''"}
        THEN _get_value(h, self, h.presets[self].prefix \o fallback, value_type)
        ELSE value

\* the value (or exception) of _get_value_with_fallback; fallback is a str
\* or NoneStr
Resolve(h, self, name, fallback, value_type) ==
    LET full  == h.presets[self].prefix \o name
        value == _get_value(h, self, full, value_type)
    IN  IF value.kind = "NotFoundError" /\ fallback # NoneStr
        THEN _get_value(h, self, h.presets[self].prefix \o fallback, value_type)
        ELSE value

\* Logs without the check of the names already printed
Logs_NoDedup(p, full, value) ==
    value.kind = "value" /\ p.logger # NoLogger

\* whether _get_value_with_fallback emits its log line
Logs(p, full, value) ==
    value.kind = "value" /\ full \notin p.printed /\ p.logger # NoLogger

LogLine(full, value) == <<"Using ">> \o full \o <<" = ", value.value>>

(***************************************************************************)
(* Preset: clone, prefix, compose.                                         *)
(***************************************************************************)
clone(h, self) ==
    LET p == h.presets[self]
    IN  [BlankPreset(p.base_preset, "None") EXCEPT
            !.name = p.name, !.config = p.config, !.data = p.data,
            !.prefix = p.prefix, !.file = p.file, !.try_number = p.try_number,
            !.uuid = p.uuid, !.creation_time = p.creation_time]

\* get_with_prefix setting the new prefix without the preset's own prefix
get_with_prefix_DropsOwn(h, self, prefix) ==
    [clone(h, self) EXCEPT !.prefix = prefix \o <<"/">>]

get_with_prefix(h, self, prefix) ==
    [clone(h, self) EXCEPT !.prefix = h.presets[self].prefix \o prefix \o <<"/">>]

\* a dict value handed around by _deep_update: a dict, a leaf, or a raised error
DictNode(t) == [kind |-> "dict", tree |-> t, value |-> ""]
LeafNode(v) == [kind |-> "leaf", tree |-> EmptyDict, value |-> v]
Raised(e) == [kind |-> e, tree |-> EmptyDict, value |-> ""]

IsRaised(x) == x.kind \notin {"dict", "leaf"}

RECURSIVE _deep_update(_, _)
RECURSIVE DeepUpdateItems(_, _, _)
\* the loop of _deep_update over the items ks of u
DeepUpdateItems(d, u, ks) ==
    IF ks = <<>> \/ IsRaised(d) THEN d
    ELSE LET k == Head(ks)
             v == u[<<k>>]
         IN  IF v = MAP
             THEN \* d.get(k, {}) needs d to be a dict
                  IF d.kind # "dict" THEN Raised("AttributeError")
                  ELSE LET old == IF <<k>> \notin DOMAIN d.tree THEN DictNode(EmptyDict)
                                  ELSE IF d.tree[<<k>>] = MAP THEN DictNode(Sub(d.tree, k))
                                  ELSE LeafNode(d.tree[<<k>>])
                           new == _deep_update(old, Sub(u, k))
                       IN  IF IsRaised(new) THEN new
                           ELSE IF new.kind = "dict"
                                THEN DeepUpdateItems(DictNode(SetSub(d.tree, k, new.tree)),
                                                     u, Tail(ks))
                                ELSE DeepUpdateItems(DictNode(SetLeaf(d.tree, k, new.value)),
                                                     u, Tail(ks))
             ELSE \* d[k] = v needs d to support item assignment by key
                  IF d.kind # "dict" THEN Raised("TypeError")
                  ELSE DeepUpdateItems(DictNode(SetLeaf(d.tree, k, v)), u, Tail(ks))

_deep_update(d, u) == DeepUpdateItems(d, u, SeqOf(TopKeys(u)))

RECURSIVE compose_config(_, _)
compose_config(h, self) ==
    LET config == DictNode(h.data[h.presets[self].data].config)
    IN  IF h.presets[self].base_preset # 0
        THEN LET base == compose_config(h, h.presets[self].base_preset)
             IN  IF IsRaised(base) THEN base ELSE _deep_update(base, config.tree)
        ELSE config

(***************************************************************************)
(* Calls.  Every action is one call on the heap; ret records it.           *)
(***************************************************************************)
Heap == [presets |-> presets, data |-> data]

NoCall == [op |-> "init", self |-> 0]

NewSession == [lines |-> <<>>, hits |-> {}]
NoView == [of |-> 0, segment |-> <<>>]

OneShot == ret.op = "init"

\* get_<value_type>(name, fallback) on preset self
Getter(self, name, fallback, value_type) ==
    LET p     == presets[self]
        full  == p.prefix \o name
        value == Resolve(Heap, self, name, fallback, value_type)
    IN  /\ presets' = IF Logs(p, full, value)
                      THEN [presets EXCEPT ![self].printed = @ \cup {full}]
                      ELSE presets
        /\ session' = [session EXCEPT ![self] =
                         [lines |-> IF Logs(p, full, value)
                                    THEN Append(@.lines, LogLine(full, value))
                                    ELSE @.lines,
                          hits  |-> IF value.kind = "value"
                                    THEN @.hits \cup {full} ELSE @.hits]]
        /\ ret' = [op |-> "get_" \o value_type, self |-> self, name |-> name,
                   fallback |-> fallback, out |-> value]
        /\ UNCHANGED <<data, views>>

get_int(self, name, fallback) == Getter(self, name, fallback, "int")
get_string(self, name, fallback) == Getter(self, name, fallback, "string")
get_float(self, name, fallback) == Getter(self, name, fallback, "float")
get_bool(self, name, fallback) == Getter(self, name, fallback, "bool")
get_list(self, name, fallback) == Getter(self, name, fallback, "list")

TypeOf(op) ==
    CASE op = "get_int" -> "int"
      [] op = "get_string" -> "string"
      [] op = "get_float" -> "float"
      [] op = "get_bool" -> "bool"
      [] OTHER -> "list"

IsGetter(op) == op \in {"get_int", "get_string", "get_float", "get_bool", "get_list"}

\* Preset(new_data, base_preset, file)
New(new_data, base_preset, file, order) ==
    LET h == Construct(Heap, new_data, base_preset, file, order)
    IN  /\ presets' = h.presets
        /\ data' = h.data
        /\ session' = Append(session, NewSession)
        /\ views' = Append(views, NoView)
        /\ ret' = [op |-> "Preset", self |-> Len(h.presets), new_data |-> new_data,
                   base_preset |-> base_preset]

\* self.diff_config(config)
DiffConfig(self, config, order) ==
    /\ ret' = [op |-> "diff_config", self |-> self, config |-> config,
               out |-> diff_config(Heap, self, config, order)]
    /\ UNCHANGED <<presets, data, session, views>>

\* self.compose_config()
ComposeConfig(self) ==
    /\ ret' = [op |-> "compose_config", self |-> self,
               out |-> compose_config(Heap, self)]
    /\ UNCHANGED <<presets, data, session, views>>

\* self.diff_config(self._deep_update(self.compose_config(), delta))
RoundTrip(self, delta) ==
    LET composed == compose_config(Heap, self)
        merged   == IF IsRaised(composed) THEN composed
                    ELSE _deep_update(composed, delta)
    IN  /\ \E order \in Orders(DOMAIN Flatten(merged.tree)) :
              ret' = [op |-> "round_trip", self |-> self, delta |-> delta,
                      out |-> IF IsRaised(merged) THEN merged
                              ELSE DictNode(diff_config(Heap, self, merged.tree, order))]
        /\ UNCHANGED <<presets, data, session, views>>

\* self.clone()
Clone(self) ==
    /\ presets' = Append(presets, clone(Heap, self))
    /\ session' = Append(session, NewSession)
    /\ views' = Append(views, NoView)
    /\ ret' = [op |-> "clone", self |-> self, out |-> Len(presets) + 1]
    /\ UNCHANGED data

\* self.get_with_prefix(prefix)
GetWithPrefix(self, prefix) ==
    /\ presets' = Append(presets, get_with_prefix(Heap, self, prefix))
    /\ session' = Append(session, NewSession)
    /\ views' = Append(views, [of |-> self, segment |-> prefix])
    /\ ret' = [op |-> "get_with_prefix", self |-> self, out |-> Len(presets) + 1]
    /\ UNCHANGED data

\* self.set_logger(new_logger)
SetLogger(self, new_logger) ==
    /\ presets' = [presets EXCEPT ![self].printed = {}, ![self].logger = new_logger]
    /\ session' = [session EXCEPT ![self] = NewSession]
    /\ ret' = [op |-> "set_logger", self |-> self]
    /\ UNCHANGED <<data, views>>

\* self.prefix = prefix
SetPrefix(self, prefix) ==
    /\ presets' = [presets EXCEPT ![self].prefix = prefix]
    /\ ret' = [op |-> "prefix=", self |-> self]
    /\ UNCHANGED <<data, session, views>>

\* self.try_number = n
SetTryNumber(self, n) ==
    /\ presets' = [presets EXCEPT ![self].try_number = n]
    /\ ret' = [op |-> "try_number=", self |-> self]
    /\ UNCHANGED <<data, session, views>>

(***************************************************************************)
(* Inputs.                                                                 *)
(***************************************************************************)
\* the nested dicts of at most k nodes, for every k up to MaxNodes
TreesBySize ==
    LET Max(a, b) == IF a > b THEN a ELSE b
    IN  [k \in 0..Max(MaxNodes, Max(MaxChainNodes, MaxLogNodes))
            |-> TreesUpTo(k, MaxDepth)]
Trees == TreesBySize[MaxNodes]

\* lookup names: the joined key paths of one or two keys
Names == {Join(p) : p \in UNION {[1..n -> Keys] : n \in 1..2}}
Segments == {<<k>> : k \in Keys}
Fallbacks == {NoneStr} \cup Segments

FlatOrders(t) == Orders(DOMAIN Flatten(t))

\* the heap of a chain of presets, each built on the one before, from the
\* candidate configs cs
RECURSIVE ChainHeap(_)
ChainHeap(cs) ==
    IF cs = <<>> THEN EmptyHeap
    ELSE Construct(ChainHeap(Front(cs)), RawConfig(cs[Len(cs)]), Len(cs) - 1,
                   "None", SeqOf(DOMAIN Flatten(cs[Len(cs)])))

\* chains of n candidate configs of at most k nodes in all
RECURSIVE Chains(_, _)
Chains(n, k) ==
    IF n = 0 THEN {<<>>}
    ELSE UNION {{<<t>> \o c : c \in Chains(n - 1, k - Size(t))} :
                    t \in TreesBySize[k]}

InitHeap(h) ==
    /\ presets = h.presets
    /\ data = h.data
    /\ ret = NoCall
    /\ session = [i \in DOMAIN h.presets |-> NewSession]
    /\ views = [i \in DOMAIN h.presets |-> NoView]

(***************************************************************************)
(* SpecDiff: one diff_config call of a root preset, over every base config *)
(* and every candidate.                                                    *)
(***************************************************************************)
InitDiff == \E t \in Trees : InitHeap(ChainHeap(<<t>>))

NextDiff ==
    /\ OneShot
    /\ \E config \in Trees : \E order \in FlatOrders(config) :
          DiffConfig(1, config, order)

SpecDiff == InitDiff /\ [][NextDiff]_vars

(***************************************************************************)
(* What the calls are specified to return, stated on the dicts themselves. *)
(***************************************************************************)
\* diff_config: candidate c against the flattened base dict b.  A leaf goes
\* when both flatten to it with equal values; a dict goes when it had
\* children and nothing below it is left; everything else stays.
DiffExpected(b, c) ==
    LET flat == Flatten(b)
        Removed(p) == /\ c[p] # MAP
                      /\ Join(p) \in DOMAIN flat
                      /\ PyEq(flat[Join(p)], c[p])
        Terminal(q) == c[q] # MAP \/ Children(c, q) = {}
        Kept(p) == IF c[p] # MAP THEN ~Removed(p)
                   ELSE \E q \in DOMAIN c :
                            IsPrefix(p, q) /\ Terminal(q) /\ ~Removed(q)
    IN  Restrict(c, {p \in DOMAIN c : Kept(p)})

\* the deep merge policy: two nested dicts merge, anything else is replaced
PolicyMerge(e, d) ==
    LET Merged(q) == q \in DOMAIN d /\ q \in DOMAIN e /\ d[q] = MAP /\ e[q] = MAP
        Survives(p) == \A n \in 1..Len(p) :
                          LET q == SubSeq(p, 1, n)
                          IN  q \notin DOMAIN d \/ Merged(q)
    IN  [p \in DOMAIN d \cup {q \in DOMAIN e : Survives(q)}
            |-> IF p \in DOMAIN d THEN d[p] ELSE e[p]]

RECURSIVE Effective(_, _)
\* the effective config of preset i: the deltas of its chain, merged
Effective(h, i) ==
    IF h.presets[i].base_preset = 0 THEN ConfigOf(h, i)
    ELSE PolicyMerge(Effective(h, h.presets[i].base_preset), ConfigOf(h, i))

Undefined == "undefined"

RECURSIVE Nearest(_, _, _)
\* the raw value of flattened key k at the nearest preset of i's chain
\* that defines it
Nearest(h, i, k) ==
    IF \E p \in LeafPaths(ConfigOf(h, i)) : Join(p) = k
    THEN ConfigOf(h, i)[CHOOSE p \in LeafPaths(ConfigOf(h, i)) : Join(p) = k]
    ELSE IF h.presets[i].base_preset = 0 THEN Undefined
    ELSE Nearest(h, h.presets[i].base_preset, k)

RECURSIVE Depth(_, _)
\* the number of presets in the chain of i
Depth(h, i) ==
    IF h.presets[i].base_preset = 0 THEN 1
    ELSE 1 + Depth(h, h.presets[i].base_preset)

(***************************************************************************)
(* SpecDiff claims.                                                        *)
(***************************************************************************)
\* C5: B.diff_config(C) is C without the leaves both flattenings hold with
\* equal values and without the dicts those removals emptied, up to the
\* root; every other path of C is kept with C's value and none is added.
C5_DiffExact ==
    ret.op = "diff_config" =>
        ret.out = DiffExpected(ConfigOf(Heap, ret.self), ret.config)

\* a diff that removed a leaf three keys deep, then its dict, then that
\* dict's parent, and left the empty root
C5_Witness ==
    /\ ret.op = "diff_config"
    /\ \E p \in DOMAIN ret.config : Len(p) = 3 /\ ret.config[p] # MAP
    /\ ret.out = EmptyDict

(***************************************************************************)
(* SpecChain: a root and a preset derived from it; then presets are built  *)
(* on any of them and composed, diffed and round-tripped.                  *)
(***************************************************************************)
NodesUsed == LET RECURSIVE Sum(_)
                 Sum(i) == IF i = 0 THEN 0 ELSE Size(data[i].config) + Sum(i - 1)
             IN  Sum(Len(data))

Quiet == ret.op \in {"init", "Preset"}

InitChain == \E cs \in Chains(2, MaxNodes) : InitHeap(ChainHeap(cs))

NewInChain ==
    /\ Quiet
    /\ Len(presets) < MaxPresets
    /\ \E config \in TreesBySize[MaxNodes - NodesUsed] :
       \E base_preset \in 0..Len(presets) :
       \E order \in FlatOrders(config) :
          New(RawConfig(config), base_preset, "None", order)

ComposeInChain ==
    /\ Quiet
    /\ \E self \in DOMAIN presets : ComposeConfig(self)

RoundTripInChain ==
    /\ Quiet
    /\ \E self \in DOMAIN presets :
       \E delta \in TreesBySize[MaxNodes - NodesUsed] :
          RoundTrip(self, delta)

NextChain == NewInChain \/ ComposeInChain \/ RoundTripInChain

SpecChain == InitChain /\ [][NextChain]_vars

\* C2: the stored config of a preset built against a base holds no path
\* whose value is the value the base chain resolves for that path.
C2_DeltaMinimal ==
    \A i \in DOMAIN presets :
        presets[i].base_preset # 0 =>
            \A k \in DOMAIN Flatten(ConfigOf(Heap, i)) :
                Nearest(Heap, presets[i].base_preset, k) # Flatten(ConfigOf(Heap, i))[k]

\* the leaves of delta are absent from, or differ in, the effective config e
IsOverride(delta, e) ==
    \A k \in DOMAIN Flatten(delta) :
        k \in DOMAIN Flatten(e) => ~PyEq(Flatten(e)[k], Flatten(delta)[k])

\* C3: B.diff_config of B.compose_config() deep-merged with an override
\* delta D is D, for a root B and for a derived B (stated here for the
\* deltas that hold no empty dict, which pruning would drop anyway).
C3_RoundTrip ==
    (/\ ret.op = "round_trip"
     /\ IsOverride(ret.delta, Effective(Heap, ret.self))
     /\ \A p \in DOMAIN ret.delta : ret.delta[p] = MAP => Children(ret.delta, p) # {})
        => ret.out = DictNode(ret.delta)

\* C4: compose_config() of a derived preset raises nothing and is the
\* base's composed config merged with the preset's delta by the policy.
C4_ComposePolicy ==
    (ret.op = "compose_config" /\ presets[ret.self].base_preset # 0)
        => ret.out = DictNode(Effective(Heap, ret.self))

\* C9: a preset built from a record without a name whose stored delta is
\* empty is named "empty", in name and in data['name'], at any depth.
C9_EmptyName ==
    (/\ ret.op = "Preset"
     /\ "name" \notin ret.new_data.has
     /\ ConfigOf(Heap, ret.self) = EmptyDict)
        => /\ presets[ret.self].name = <<"empty">>
           /\ data[presets[ret.self].data].name = <<"empty">>

(***************************************************************************)
(* SpecResolve: a chain of three presets, and one typed getter call on any *)
(* of them, for every name, fallback and type.                             *)
(***************************************************************************)
InitResolve == \E cs \in Chains(3, MaxChainNodes) : InitHeap(ChainHeap(cs))

GetIntCall ==
    OneShot /\ \E self \in DOMAIN presets, name \in Names, fallback \in Fallbacks :
                  get_int(self, name, fallback)
GetStringCall ==
    OneShot /\ \E self \in DOMAIN presets, name \in Names, fallback \in Fallbacks :
                  get_string(self, name, fallback)
GetFloatCall ==
    OneShot /\ \E self \in DOMAIN presets, name \in Names, fallback \in Fallbacks :
                  get_float(self, name, fallback)
GetBoolCall ==
    OneShot /\ \E self \in DOMAIN presets, name \in Names, fallback \in Fallbacks :
                  get_bool(self, name, fallback)
GetListCall ==
    OneShot /\ \E self \in DOMAIN presets, name \in Names, fallback \in Fallbacks :
                  get_list(self, name, fallback)

NextResolve ==
    GetIntCall \/ GetStringCall \/ GetFloatCall \/ GetBoolCall \/ GetListCall

SpecResolve == InitResolve /\ [][NextResolve]_vars

\* the name a getter call looked up first
Primary == presets[ret.self].prefix \o ret.name

\* C1: a getter called for a key that the preset or an ancestor defines
\* returns the value stored at the nearest preset of the chain that
\* defines it, converted to the getter's type.
C1_NearestWins ==
    (/\ IsGetter(ret.op)
     /\ ret.fallback = NoneStr
     /\ Nearest(Heap, ret.self, Primary) # Undefined)
        => ret.out = Convert(Nearest(Heap, ret.self, Primary), TypeOf(ret.op))

\* a call on the third preset of a chain for a key that the second and the
\* first preset define with different values, and the third does not
C1_Witness ==
    /\ IsGetter(ret.op)
    /\ ret.fallback = NoneStr
    /\ ret.self = 3
    /\ ret.out.kind = "value"
    /\ Primary \notin DOMAIN Flatten(ConfigOf(Heap, 3))
    /\ Primary \in DOMAIN Flatten(ConfigOf(Heap, 2))
    /\ Primary \in DOMAIN Flatten(ConfigOf(Heap, 1))
    /\ ~PyEq(Flatten(ConfigOf(Heap, 1))[Primary], Flatten(ConfigOf(Heap, 2))[Primary])

\* C6: when the primary key is defined anywhere in the chain, falsy values
\* included, a getter called with a fallback returns the primary's value:
\* the fallback is consulted only when no preset of the chain defines the
\* primary key.
C6_FallbackOnlyWhenUndefined ==
    (/\ IsGetter(ret.op)
     /\ ret.fallback # NoneStr
     /\ Nearest(Heap, ret.self, Primary) # Undefined)
        => ret.out = Convert(Nearest(Heap, ret.self, Primary), TypeOf(ret.op))

\* a call on the third preset, which defines the fallback key itself, for
\* a primary key that only the first preset defines, with a falsy value
C6_Witness ==
    /\ IsGetter(ret.op)
    /\ ret.fallback # NoneStr
    /\ ret.self = 3
    /\ ret.fallback \in DOMAIN Flatten(ConfigOf(Heap, 3))
    /\ Primary \notin DOMAIN Flatten(ConfigOf(Heap, 3))
    /\ Primary \notin DOMAIN Flatten(ConfigOf(Heap, 2))
    /\ Primary \in DOMAIN Flatten(ConfigOf(Heap, 1))
    /\ Flatten(ConfigOf(Heap, 1))[Primary] \in {"0", "False", "[]"}
    /\ Flatten(ConfigOf(Heap, 3))[ret.fallback] = "1"
    /\ ret.out.kind = "value"

(***************************************************************************)
(* SpecPrefix: a root and a preset P derived from it; then one call chain  *)
(* P.get_with_prefix(s1)[.get_with_prefix(s2)].get_T(k).  (A root P is the *)
(* case of a base with an empty config.)                                   *)
(***************************************************************************)
InitPrefix == \E cs \in Chains(2, MaxNodes) : InitHeap(ChainHeap(cs))

NumViews == Cardinality({i \in DOMAIN views : views[i].of # 0})

ScopeCall ==
    /\ ret.op \in {"init", "get_with_prefix"}
    /\ NumViews < MaxViews
    /\ \E prefix \in Segments :
          GetWithPrefix(IF ret.op = "init" THEN Len(presets) ELSE ret.out, prefix)

ScopedGetInt ==
    ret.op = "get_with_prefix" /\ \E name \in Segments : get_int(ret.out, name, NoneStr)
ScopedGetString ==
    ret.op = "get_with_prefix" /\ \E name \in Segments : get_string(ret.out, name, NoneStr)
ScopedGetFloat ==
    ret.op = "get_with_prefix" /\ \E name \in Segments : get_float(ret.out, name, NoneStr)
ScopedGetBool ==
    ret.op = "get_with_prefix" /\ \E name \in Segments : get_bool(ret.out, name, NoneStr)
ScopedGetList ==
    ret.op = "get_with_prefix" /\ \E name \in Segments : get_list(ret.out, name, NoneStr)

NextPrefix ==
    \/ ScopeCall
    \/ ScopedGetInt \/ ScopedGetString \/ ScopedGetFloat \/ ScopedGetBool
    \/ ScopedGetList

SpecPrefix == InitPrefix /\ [][NextPrefix]_vars

RECURSIVE Origin(_)
\* the preset a view was taken from, through every get_with_prefix
Origin(i) == IF views[i].of = 0 THEN i ELSE Origin(views[i].of)

RECURSIVE ScopedName(_, _)
\* s1 + "/" + ... + sn + "/" + name for the segments view i was taken with
ScopedName(i, name) ==
    IF views[i].of = 0 THEN name
    ELSE ScopedName(views[i].of, views[i].segment \o <<"/">> \o name)

\* C7: a getter called through get_with_prefix(s), once or nested, has the
\* outcome (value or NotFoundError) of the same getter called on the
\* original preset with s + "/" + k.
C7_PrefixEquivalence ==
    (IsGetter(ret.op) /\ views[ret.self].of # 0)
        => ret.out = Resolve(Heap, Origin(ret.self), ScopedName(ret.self, ret.name),
                             NoneStr, TypeOf(ret.op))

\* a value resolved through two nested views of the derived preset, for a
\* key that only its base defines
C7_Witness ==
    /\ IsGetter(ret.op)
    /\ views[ret.self].of # 0
    /\ views[views[ret.self].of].of = 2
    /\ ret.out.kind = "value"
    /\ ConfigOf(Heap, 2) = EmptyDict
    /\ ScopedName(ret.self, ret.name) \in DOMAIN Flatten(ConfigOf(Heap, 1))

(***************************************************************************)
(* SpecLog: one preset; getter calls and set_logger calls on it, in any    *)
(* order.                                                                  *)
(***************************************************************************)
Loggers == {NoLogger, "logger"}

InitLog == \E cs \in Chains(1, MaxLogNodes) : InitHeap(ChainHeap(cs))

LogGetInt ==
    \E name \in Segments, fallback \in Fallbacks : get_int(Len(presets), name, fallback)
LogGetString ==
    \E name \in Segments, fallback \in Fallbacks : get_string(Len(presets), name, fallback)
LogGetFloat ==
    \E name \in Segments, fallback \in Fallbacks : get_float(Len(presets), name, fallback)
LogGetBool ==
    \E name \in Segments, fallback \in Fallbacks : get_bool(Len(presets), name, fallback)
LogGetList ==
    \E name \in Segments, fallback \in Fallbacks : get_list(Len(presets), name, fallback)
LogSetLogger ==
    \E new_logger \in Loggers : SetLogger(Len(presets), new_logger)

NextLog ==
    \/ LogGetInt \/ LogGetString \/ LogGetFloat \/ LogGetBool \/ LogGetList
    \/ LogSetLogger

SpecLog == InitLog /\ [][NextLog]_vars

\* the name a log line reports
LineName(line) == SubSeq(line, 2, Len(line) - 2)

LinesFor(i, name) ==
    Cardinality({n \in DOMAIN session[i].lines : LineName(session[i].lines[n]) = name})

\* C8: while a logger is set, the successful resolutions of one name since
\* the last set_logger call have emitted exactly one line in all, so the
\* first of them emitted it and the later ones none; set_logger starts the
\* count again for every name.
C8_LogOnce ==
    \A i \in DOMAIN presets :
        presets[i].logger # NoLogger =>
            \A name \in Names :
                LinesFor(i, name) = IF name \in session[i].hits THEN 1 ELSE 0

\* a second successful resolution of a logged name, as another type, that
\* emitted nothing: the one line of the name shows the first value
C8_Witness ==
    /\ IsGetter(ret.op)
    /\ ret.out.kind = "value"
    /\ presets[ret.self].logger # NoLogger
    /\ LinesFor(ret.self, Primary) = 1
    /\ \E n \in DOMAIN session[ret.self].lines :
          /\ LineName(session[ret.self].lines[n]) = Primary
          /\ session[ret.self].lines[n][Len(session[ret.self].lines[n])] # ret.out.value

(***************************************************************************)
(* Spec: the object lifecycle.  Presets are built from raw records, cloned *)
(* and prefixed, and their prefix, try_number and logger are assigned.     *)
(***************************************************************************)
RawRecords ==
    {RawConfig(EmptyDict)} \cup
    {[config |-> EmptyDict, has |-> {"name", "uuid", "creation_time", "abstract"},
      name |-> <<"n">>, uuid |-> "u", creation_time |-> 0, abstract |-> abstract] :
        abstract \in BOOLEAN}

Init ==
    /\ presets = <<>>
    /\ data = <<>>
    /\ ret = NoCall
    /\ session = <<>>
    /\ views = <<>>

NewPreset ==
    /\ Len(presets) < MaxPresets
    /\ \E new_data \in RawRecords, base_preset \in 0..Len(presets),
          file \in {"None", "preset.json"} :
          New(new_data, base_preset, file, <<>>)

ClonePreset ==
    /\ Len(presets) < MaxPresets
    /\ \E self \in DOMAIN presets : Clone(self)

PrefixPreset ==
    /\ Len(presets) < MaxPresets
    /\ \E self \in DOMAIN presets, prefix \in Segments : GetWithPrefix(self, prefix)

\* the presets that clone() or get_with_prefix() returned
Copies == {i \in DOMAIN presets : \E j \in 1..(i - 1) : presets[j].data = presets[i].data}

AssignPrefix ==
    \E self \in Copies : SetPrefix(self, <<"b", "/">>)

AssignTryNumber ==
    \E self \in Copies, n \in 0..MaxTry : SetTryNumber(self, n)

AssignLogger ==
    \E self \in Copies, new_logger \in Loggers : SetLogger(self, new_logger)

Next ==
    \/ NewPreset \/ ClonePreset \/ PrefixPreset
    \/ AssignPrefix \/ AssignTryNumber \/ AssignLogger

Spec == Init /\ [][Next]_vars

\* the scalar fields of the data model that a clone has from its original
SameScalars(c, p) ==
    /\ c.name = p.name
    /\ c.uuid = p.uuid
    /\ c.creation_time = p.creation_time
    /\ c.file = p.file
    /\ c.try_number = p.try_number
    /\ c.abstract = p.abstract

\* C10: the preset that clone() or get_with_prefix() returns shares config,
\* base_preset and data with the original and has its name, uuid,
\* creation_time, file, try_number and abstract, and its prefix (extended,
\* for get_with_prefix); and an assignment of prefix or try_number, or a
\* set_logger call, changes no other preset.
C10_CloneCopies ==
    [][/\ ret'.op \in {"clone", "get_with_prefix"} =>
            /\ presets'[ret'.out].config = presets[ret'.self].config
            /\ presets'[ret'.out].base_preset = presets[ret'.self].base_preset
            /\ presets'[ret'.out].data = presets[ret'.self].data
            /\ SameScalars(presets'[ret'.out], presets[ret'.self])
            /\ ret'.op = "clone" => presets'[ret'.out].prefix = presets[ret'.self].prefix
            /\ ret'.op = "get_with_prefix" =>
                  presets'[ret'.out].prefix =
                      presets[ret'.self].prefix \o views'[ret'.out].segment \o <<"/">>
       /\ ret'.op \in {"prefix=", "try_number=", "set_logger"} =>
            \A i \in DOMAIN presets : i # ret'.self => presets'[i] = presets[i]
      ]_vars

====
